---- MODULE Spec2Model ----
(***************************************************************************)
(* Model of the lease upload-and-analyse pipeline (POST /api/upload) and   *)
(* of the progress channel it publishes to (the global progressStore, the  *)
(* exported emitProgress and the polling GET /api/progress/[sessionId]),   *)
(* of the obligation extraction handlers (GET /api/export-obligations/[id] *)
(* and POST /api/generate-obligations-csv) and of the chat turn            *)
(* (POST /api/chat with ChatService).                                      *)
(*                                                                         *)
(* Strings whose only observed property is their length (the extracted    *)
(* text, error messages) are modelled by that length.  Session ids and     *)
(* stream instances are opaque and modelled by small integers.             *)
(***************************************************************************)
EXTENDS Integers, Sequences, FiniteSets, TLC

\* ------------------------------------------------------------------ bounds
MaxModes == 2
MaxEvents == 2
MaxRecords == 2
MaxDocs == 2
MaxWords == 2

Sessions == {"upload-1", "upload-2"}
Streams == {"r1", "r2"}
UploadStreams == {"r1"}

\* ------------------------------------------------------- program constants
NoSession == ""
MinTextLen == 100
FailPrefixLen == 24
UnknownErrorLen == 22
FailLiteralLen == 22
MaxSize == 50 * 1024 * 1024

Registry == {"standard", "parsing", "redlining", "obligations", "renewal", "legal"}

\* ---------------------------------------------------------- input samples
ModeInputs == {"standard", "legal", "custom"}
ModeLists == UNION {[1..n -> ModeInputs] : n \in 1..MaxModes}
FileTypes == {"application/pdf",
              "application/vnd.openxmlformats-officedocument.wordprocessingml.document",
              "application/msword",
              "text/plain"}
FileSizes == {MaxSize, MaxSize + 1}
NoFile == [present |-> FALSE, type |-> "", size |-> 0]
Files == {NoFile} \cup [present : {TRUE}, type : FileTypes, size : FileSizes]
TextLens == {99, 100, 8001}
MsgLens == {0, 14, 80}
ModeMsgLens == {14}
ChannelSteps == {"Uploading to storage..."}
ChannelStatuses == {"active", "error"}

VARIABLES
  progressStore,   \* the global Map: [keys : set of session ids, arr : id -> queued events]
  stream,          \* per GET stream: [state, sessionId, isConnected]
  out,             \* per GET stream: the messages enqueued on its controller
  pc,              \* position of the POST handler (its awaited call)
  sessionId,       \* POST: let sessionId
  file,            \* POST: const file
  analysisModes,   \* POST: const analysisModes
  extractedText,   \* POST: let extractedText, as [failed, len]
  analysisResults, \* POST: const analysisResults, mode name -> slot
  idx,             \* POST: position of the for..of loop in analysisModes
  response,        \* POST: the NextResponse returned
  storage,         \* number of objects in the user-files bucket written by the run
  db,              \* rows inserted into user_files by the run
  calls,           \* log of the external calls the run has made
  published,       \* history: per session, every event ever pushed
  delivered,       \* history: per session, every event ever sent to a stream
  hist,            \* history: per session, attach/dispose/drain flags and batches
  handler,         \* extraction: which of the three handlers serves the request
  xpc,             \* extraction: position of the handler (its awaited call)
  document,        \* extraction: the user_files row of the export handlers
  modelOutput,     \* extraction: the text the model returned, by its parts
  obligationsText, \* extraction: let obligationsText, after the clean-up
  obligations,     \* extraction: let obligations, as parsed or taken from the row
  exportResponse,  \* extraction: the response returned
  taken,           \* history: the branches the extraction went through
  cpc,             \* chat: position of the POST handler (its awaited call)
  message,         \* chat: the message of the request body
  chatType,        \* chat: 'document' or 'project'
  currentSessionId, \* chat: let currentSessionId
  documentsData,   \* chat: the selected user_files rows (fileData or projectFiles)
  fullPrompt,      \* chat: the prompt the service sends to the model
  chat_messages,   \* chat: rows inserted into chat_messages
  generated,       \* history: how model.generateContent ended for the chat turn
  chatResponse     \* chat: the response returned

chanVars == <<progressStore, stream, out, published, delivered, hist>>
postVars == <<pc, sessionId, file, analysisModes, extractedText, analysisResults,
              idx, response, storage, db, calls>>
extractVars == <<handler, xpc, document, modelOutput, obligationsText, obligations,
                 exportResponse, taken>>
turnVars == <<cpc, message, chatType, currentSessionId, documentsData, fullPrompt,
              chat_messages, generated, chatResponse>>
sideVars == <<extractVars, turnVars>>
otherThanExtract == <<chanVars, postVars, turnVars>>
otherThanChat == <<chanVars, postVars, extractVars>>
vars == <<progressStore, stream, out, pc, sessionId, file, analysisModes,
          extractedText, analysisResults, idx, response, storage, db, calls,
          published, delivered, hist, handler, xpc, document, modelOutput,
          obligationsText, obligations, exportResponse, taken, cpc, message, chatType,
          currentSessionId, documentsData, fullPrompt, chat_messages, generated,
          chatResponse>>

\* ---------------------------------------------------------------- channel
\* A channel value threads the Map through the emits of one handler segment:
\* q is the Map, log the publication history, thrown whether a push threw.
Chan(q, log) == [q |-> q, log |-> log, thrown |-> FALSE]

ProgressData(step, mode, status, n) ==
  [type |-> "progress", step |-> step, mode |-> mode, status |-> status, timestamp |-> n]

\* mutant: the event is put at the front of the array (unshift for push)
emitProgressUnshift(c, sid, step, mode, status) ==
  IF c.thrown THEN c
  ELSE LET q1 == IF sid \in c.q.keys THEN c.q
                 ELSE [keys |-> c.q.keys \cup {sid}, arr |-> [c.q.arr EXCEPT ![sid] = <<>>]]
           ev == ProgressData(step, mode, status, Len(c.log[sid]) + 1)
       IN  [q |-> [q1 EXCEPT !.arr[sid] = <<ev>> \o @],
            log |-> [c.log EXCEPT ![sid] = Append(@, ev)],
            thrown |-> FALSE]

\* mutant: the array is set to [] on every call, not only when the key is missing
emitProgressReset(c, sid, step, mode, status) ==
  IF c.thrown THEN c
  ELSE LET q1 == [keys |-> c.q.keys \cup {sid}, arr |-> [c.q.arr EXCEPT ![sid] = <<>>]]
           ev == ProgressData(step, mode, status, Len(c.log[sid]) + 1)
       IN  [q |-> [q1 EXCEPT !.arr[sid] = Append(@, ev)],
            log |-> [c.log EXCEPT ![sid] = Append(@, ev)],
            thrown |-> FALSE]

\* mutant: the array is not created when the key is missing, so the push throws
emitProgressNoInit(c, sid, step, mode, status) ==
  IF c.thrown THEN c
  ELSE IF sid \notin c.q.keys THEN [c EXCEPT !.thrown = TRUE]
  ELSE LET ev == ProgressData(step, mode, status, Len(c.log[sid]) + 1)
       IN  [q |-> [c.q EXCEPT !.arr[sid] = Append(@, ev)],
            log |-> [c.log EXCEPT ![sid] = Append(@, ev)],
            thrown |-> FALSE]

emitProgress(c, sid, step, mode, status) ==
  IF c.thrown THEN c
  ELSE LET q1 == IF sid \in c.q.keys THEN c.q
                 ELSE [keys |-> c.q.keys \cup {sid}, arr |-> [c.q.arr EXCEPT ![sid] = <<>>]]
           ev == ProgressData(step, mode, status, Len(c.log[sid]) + 1)
       IN  [q |-> [q1 EXCEPT !.arr[sid] = Append(@, ev)],
            log |-> [c.log EXCEPT ![sid] = Append(@, ev)],
            thrown |-> FALSE]

logProgress(c, sid, step, mode) ==
  IF sid = NoSession THEN c ELSE emitProgress(c, sid, step, mode, "active")

\* mutant: the completion helper emits 'active' (copied from logProgress)
logProgressCompletedAsActive(c, sid, step, mode) ==
  IF sid = NoSession THEN c ELSE emitProgress(c, sid, step, mode, "active")

logProgressCompleted(c, sid, step, mode) ==
  IF sid = NoSession THEN c ELSE emitProgress(c, sid, step, mode, "completed")

\* mutant: the failure of a stage publishes nothing
emitErrorSilent(c, sid, step, mode) == c

emitError(c, sid, step, mode) ==
  IF sid = NoSession THEN c ELSE emitProgress(c, sid, step, mode, "error")

handleError(msgLen, context) ==
  [error |-> IF msgLen = 0 THEN UnknownErrorLen ELSE msgLen, context |-> context]

Init ==
  /\ progressStore = [keys |-> {}, arr |-> [s \in Sessions |-> <<>>]]
  /\ stream = [c \in Streams |-> [state |-> "new", sessionId |-> NoSession, isConnected |-> FALSE]]
  /\ out = [c \in Streams |-> <<>>]
  /\ pc = "request"
  /\ sessionId = NoSession
  /\ file = NoFile
  /\ analysisModes = <<>>
  /\ extractedText = [failed |-> FALSE, len |-> 0]
  /\ analysisResults = <<>>
  /\ idx = 0
  /\ response = [status |-> 0, context |-> "", analysis |-> <<>>, sessionId |-> NoSession]
  /\ storage = 0
  /\ db = <<>>
  /\ calls = <<>>
  /\ published = [s \in Sessions |-> <<>>]
  /\ delivered = [s \in Sessions |-> <<>>]
  /\ hist = [s \in Sessions |-> [attached |-> FALSE, late |-> FALSE, disposed |-> FALSE,
                                  drained |-> FALSE, coalesced |-> FALSE, row |-> 0]]
  /\ handler = ""
  /\ xpc = "request"
  /\ document = [file_content |-> FALSE, analysis_results |-> FALSE,
                 obligations |-> [kind |-> "absent", recs |-> <<>>]]
  /\ modelOutput = [pre |-> <<>>, open |-> "", body |-> <<>>, post |-> <<>>]
  /\ obligationsText = <<>>
  /\ obligations = [kind |-> "absent", recs |-> <<>>]
  /\ exportResponse = [status |-> 0, error |-> "", obligations |-> <<>>]
  /\ taken = {}
  /\ cpc = "request"
  /\ message = <<>>
  /\ chatType = ""
  /\ currentSessionId = NoSession
  /\ documentsData = <<>>
  /\ fullPrompt = [systemPrompt |-> "",
                   context |-> [overview |-> FALSE, totalDocs |-> 0, leaseTypes |-> <<>>,
                                analysisModes |-> <<>>, totalClauses |-> 0, totalRisks |-> 0],
                   analysisContext |-> <<>>, details |-> <<>>, question |-> <<>>]
  /\ chat_messages = <<>>
  /\ generated = "none"
  /\ chatResponse = [status |-> 0, error |-> "",
                     message |-> [apology |-> FALSE, text |-> ""], chatType |-> ""]

\* ------------------------------------------------- GET /api/progress/[id]
Connected(sid) == [type |-> "connected", sessionId |-> sid]

\* ReadableStream.start: the connected message, the interval, the abort listener
StreamStart(c, sid) ==
  /\ stream[c].state = "new"
  /\ stream' = [stream EXCEPT ![c] = [state |-> "open", sessionId |-> sid, isConnected |-> TRUE]]
  /\ out' = [out EXCEPT ![c] = Append(@, Connected(sid))]
  /\ hist' = [hist EXCEPT ![sid] = [@ EXCEPT !.attached = TRUE,
                   !.late = IF hist[sid].attached THEN @ ELSE published[sid] # <<>>]]
  /\ UNCHANGED <<progressStore, published, delivered>>
  /\ UNCHANGED postVars

\* what one tick of the interval sends: all accumulated progress updates
\* mutant: a tick sends the first accumulated update only
BatchFirstOnly(q, sid) ==
  IF sid \in q.keys /\ Len(q.arr[sid]) > 0 THEN <<q.arr[sid][1]>> ELSE <<>>

Batch(q, sid) == IF sid \in q.keys /\ Len(q.arr[sid]) > 0 THEN q.arr[sid] ELSE <<>>

\* mutant: the sent progress is left in the Map
ClearedNot(q, sid) == q

\* the Map after one tick: the sent progress is cleared
Cleared(q, sid) ==
  IF sid \in q.keys /\ Len(q.arr[sid]) > 0 THEN [q EXCEPT !.arr[sid] = <<>>] ELSE q

\* one tick of the setInterval callback
Poll(c) ==
  /\ stream[c].state = "open"
  /\ LET sid == stream[c].sessionId
         b == Batch(progressStore, sid)
     IN  IF ~stream[c].isConnected
         THEN /\ stream' = [stream EXCEPT ![c].state = "stopped"]
              /\ UNCHANGED <<progressStore, out, published, delivered, hist>>
         ELSE /\ out' = [out EXCEPT ![c] = @ \o b]
              /\ progressStore' = Cleared(progressStore, sid)
              /\ delivered' = [delivered EXCEPT ![sid] = @ \o [i \in 1..Len(b) |-> [ev |-> b[i], by |-> c]]]
              /\ hist' = [hist EXCEPT ![sid] = [@ EXCEPT !.drained = TRUE,
                               !.coalesced = @ \/ Len(b) > 1,
                               !.row = IF @ < 2 THEN @ + 1 ELSE @]]
              /\ UNCHANGED <<stream, published>>
  /\ UNCHANGED postVars

\* mutant: the abort listener clears the whole Map
DeletedAll(q, sid) == [keys |-> {}, arr |-> [s \in DOMAIN q.arr |-> <<>>]]

\* the Map after the abort listener ran: the session's entry is deleted
Deleted(q, sid) == [keys |-> q.keys \ {sid}, arr |-> [q.arr EXCEPT ![sid] = <<>>]]

\* the 'abort' listener of request.signal: client disconnect
Abort(c) ==
  /\ stream[c].state = "open"
  /\ LET sid == stream[c].sessionId
     IN  /\ stream' = [stream EXCEPT ![c] = [@ EXCEPT !.state = "closed", !.isConnected = FALSE]]
         /\ progressStore' = Deleted(progressStore, sid)
         /\ hist' = [hist EXCEPT ![sid].disposed = TRUE]
  /\ UNCHANGED <<out, published, delivered>>
  /\ UNCHANGED postVars

\* a call of the exported emitProgress(sessionId, step, status)
Publish(sid, step, status) ==
  /\ Len(published[sid]) < MaxEvents
  /\ LET c == emitProgress(Chan(progressStore, published), sid, step, "", status)
     IN  /\ progressStore' = c.q
         /\ published' = c.log
  /\ hist' = [hist EXCEPT ![sid].row = 0]
  /\ UNCHANGED <<stream, out, delivered>>
  /\ UNCHANGED postVars

\* --------------------------------------------------------- POST /api/upload
LeaseType == "solar"
PromptBudget == 8000

Resp(status, context) == [status |-> status, context |-> context, analysis |-> <<>>, sessionId |-> NoSession]

HasPrompt(mode) == mode \in Registry

SuccessSlot(mode) == [error |-> FALSE, text |-> mode]

ErrorEnvelope(errorInfo) == [error |-> TRUE, message |-> errorInfo.error, timestamp |-> "iso"]

\* mutant: the catch of a mode does not store the envelope
SetSlotUnlessError(results, mode, slot) ==
  IF slot.error THEN results
  ELSE [k \in (DOMAIN results) \cup {mode} |-> IF k = mode THEN slot ELSE results[k]]

\* mutant: the assignment replaces the whole mapping by the one slot
SetSlotOnly(results, mode, slot) == [k \in {mode} |-> slot]

SetSlot(results, mode, slot) ==
  [k \in (DOMAIN results) \cup {mode} |-> IF k = mode THEN slot ELSE results[k]]

\* mutant: the gate compares with <= 98
InsufficientTextOffByOne(text) ==
  (text.failed /\ text.len = FailLiteralLen) \/ text.len < MinTextLen - 1

InsufficientText(text) ==
  (text.failed /\ text.len = FailLiteralLen) \/ text.len < MinTextLen

Substring(len, n) == IF len < n THEN len ELSE n

\* index of the first mode at or after position i that has a prompt, else 0
NextKnown(modes, i) ==
  LET known == {j \in i..Len(modes) : HasPrompt(modes[j])}
  IN  IF known = {} THEN 0 ELSE CHOOSE j \in known : \A k \in known : j <= k

\* the outer catch of POST: any exception thrown inside the try
Caught ==
  /\ pc' = "done"
  /\ response' = Resp(500, "Upload Process")

\* commit the channel value reached by a handler segment
Commit(c) ==
  /\ progressStore' = c.q
  /\ published' = c.log
  /\ hist' = [s \in Sessions |-> IF c.log[s] # published[s] THEN [hist[s] EXCEPT !.row = 0] ELSE hist[s]]
  /\ UNCHANGED <<stream, out, delivered>>

\* POST entry up to the awaited supabase.auth.getUser()
PostRequest(keySet) ==
  /\ pc = "request"
  /\ IF ~keySet
     THEN /\ pc' = "done"
          /\ response' = Resp(500, "API Configuration")
          /\ UNCHANGED chanVars
     ELSE LET c == logProgress(Chan(progressStore, published), sessionId,
                               "Getting user authentication", "")
          IN  /\ Commit(c)
              /\ IF c.thrown THEN Caught ELSE pc' = "auth" /\ UNCHANGED response
  /\ UNCHANGED <<sessionId, file, analysisModes, extractedText, analysisResults, idx,
                 storage, db, calls>>

\* after getUser() up to the awaited request.formData()
PostAuth(auth) ==
  /\ pc = "auth"
  /\ IF auth # "user"
     THEN /\ pc' = "done"
          /\ response' = Resp(401, "User Authentication")
          /\ UNCHANGED chanVars
     ELSE LET c == logProgressCompleted(Chan(progressStore, published), sessionId,
                                        "User authenticated successfully", "")
          IN  /\ Commit(c)
              /\ IF c.thrown THEN Caught ELSE pc' = "form" /\ UNCHANGED response
  /\ UNCHANGED <<sessionId, file, analysisModes, extractedText, analysisResults, idx,
                 storage, db, calls>>

\* the three file checks: the context of the 400 response, or "" when the file passes
\* mutant: the size check is left out
ValidateAnySize(f) ==
  IF ~f.present THEN "File Validation"
  ELSE IF f.type # "application/pdf" THEN "File Validation"
  ELSE ""

Validate(f) ==
  IF ~f.present THEN "File Validation"
  ELSE IF f.type # "application/pdf" THEN "File Validation"
  ELSE IF f.size > MaxSize THEN "File Validation"
  ELSE ""

\* an external call the handler awaits, and the same call once it has returned
Call(kind, mode, len) == [kind |-> kind, mode |-> mode, len |-> len, result |-> "pending", msg |-> 0]

\* mutant: the call is not awaited, the handler goes on while it is still pending
ReturnedNotAwaited(cs, result, msg) == cs

Returned(cs, result, msg) == [cs EXCEPT ![Len(cs)] = [@ EXCEPT !.result = result, !.msg = msg]]

\* after formData() up to the awaited file.arrayBuffer()
PostForm(sid, f, modes) ==
  /\ pc = "form"
  /\ sessionId' = sid
  /\ file' = f
  /\ analysisModes' = modes
  /\ LET c1 == logProgress(Chan(progressStore, published), sid, "Parsing form data...", "")
         c2 == logProgressCompleted(c1, sid, "Form data parsed successfully", "")
         c3 == logProgress(c2, sid, "Converting file to buffer...", "")
     IN  IF c2.thrown
         THEN Commit(c2) /\ Caught /\ UNCHANGED calls
         ELSE IF Validate(f) # ""
         THEN /\ Commit(c2)
              /\ pc' = "done"
              /\ response' = Resp(400, Validate(f))
              /\ UNCHANGED calls
         ELSE /\ Commit(c3)
              /\ IF c3.thrown THEN Caught /\ UNCHANGED calls
                 ELSE /\ pc' = "buffer"
                      /\ calls' = Append(calls, Call("arrayBuffer", "", 0))
                      /\ UNCHANGED response
  /\ UNCHANGED <<extractedText, analysisResults, idx, storage, db>>

\* after arrayBuffer() up to the awaited storage upload
PostBuffer(ok) ==
  /\ pc = "buffer"
  /\ IF ~ok
     THEN LET c == emitError(Chan(progressStore, published), sessionId,
                             "Converting file to buffer", "")
          IN  /\ Commit(c)
              /\ calls' = Returned(calls, "error", 0)
              /\ IF c.thrown THEN Caught
                 ELSE pc' = "done" /\ response' = Resp(400, "File Buffer Conversion")
     ELSE LET c1 == logProgressCompleted(Chan(progressStore, published), sessionId,
                                         "File converted to buffer", "")
              c2 == logProgress(c1, sessionId, "Uploading to storage...", "")
          IN  /\ Commit(c2)
              /\ IF c2.thrown THEN Caught /\ calls' = Returned(calls, "ok", 0)
                 ELSE /\ pc' = "upload"
                      /\ calls' = Append(Returned(calls, "ok", 0), Call("upload", "", 0))
                      /\ UNCHANGED response
  /\ UNCHANGED <<sessionId, file, analysisModes, extractedText, analysisResults, idx,
                 storage, db>>

\* after the storage upload up to the awaited text-extraction call
PostUpload(ok) ==
  /\ pc = "upload"
  /\ IF ~ok
     THEN LET c == emitError(Chan(progressStore, published), sessionId,
                             "Uploading to storage", "")
          IN  /\ Commit(c)
              /\ calls' = Returned(calls, "error", 0)
              /\ IF c.thrown THEN Caught
                 ELSE pc' = "done" /\ response' = Resp(500, "File Upload to Storage")
              /\ UNCHANGED storage
     ELSE LET c1 == logProgressCompleted(Chan(progressStore, published), sessionId,
                                         "File uploaded successfully to storage", "")
              c2 == logProgress(c1, sessionId, "Extracting text with Gemini...", "")
          IN  /\ Commit(c2)
              /\ storage' = storage + 1
              /\ IF c2.thrown THEN Caught /\ calls' = Returned(calls, "ok", 0)
                 ELSE /\ pc' = "extract"
                      /\ calls' = Append(Returned(calls, "ok", 0), Call("extract", "", 0))
                      /\ UNCHANGED response
  /\ UNCHANGED <<sessionId, file, analysisModes, extractedText, analysisResults, idx, db>>

\* the for..of loop from position i up to its next awaited call: the model call of
\* the next mode that has a prompt, or the insert once the list is exhausted
ContinueLoop(c, i, text, cs) ==
  LET j == NextKnown(analysisModes, i)
  IN  IF j # 0
      THEN LET c1 == logProgress(c, sessionId, "Running analysis...", analysisModes[j])
           IN  /\ Commit(c1)
               /\ IF c1.thrown THEN Caught /\ calls' = cs /\ UNCHANGED idx
                  ELSE /\ pc' = "analyze"
                       /\ idx' = j
                       /\ calls' = Append(cs, Call("analyze", analysisModes[j],
                                                   Substring(text.len, PromptBudget)))
                       /\ UNCHANGED response
      ELSE LET c1 == logProgress(c, sessionId, "Analysis completed, saving to database...", "")
           IN  /\ Commit(c1)
               /\ IF c1.thrown THEN Caught /\ calls' = cs /\ UNCHANGED idx
                  ELSE /\ pc' = "persist"
                       /\ idx' = Len(analysisModes) + 1
                       /\ calls' = Append(cs, Call("insert", "", 0))
                       /\ UNCHANGED response

\* the text the extraction catch substitutes
FailureText(msgLen) ==
  [failed |-> TRUE, len |-> FailPrefixLen + handleError(msgLen, "Gemini Text Extraction").error]

\* after the text-extraction call: the content gate and the start of the loop
PostExtract(ok, len, msgLen) ==
  /\ pc = "extract"
  /\ LET text == IF ok THEN [failed |-> FALSE, len |-> len] ELSE FailureText(msgLen)
         cs == IF ok THEN Returned(calls, "ok", 0) ELSE Returned(calls, "error", msgLen)
         c0 == Chan(progressStore, published)
         c1 == IF ok THEN logProgressCompleted(c0, sessionId, "Text extracted successfully", "")
               ELSE emitError(c0, sessionId, "Extracting text with Gemini", "")
         c2 == logProgress(c1, sessionId, "Starting analysis...", "")
     IN  /\ extractedText' = text
         /\ IF c2.thrown
            THEN Commit(c2) /\ Caught /\ calls' = cs /\ UNCHANGED idx
            ELSE IF InsufficientText(text)
            THEN /\ Commit(c2)
                 /\ pc' = "done"
                 /\ response' = Resp(400, "Text Analysis Prerequisite")
                 /\ calls' = cs
                 /\ UNCHANGED idx
            ELSE ContinueLoop(c2, 1, text, cs)
  /\ UNCHANGED <<sessionId, file, analysisModes, analysisResults, storage, db>>

\* mutant: the catch of a mode rethrows, so the outer catch ends the run
PostAnalyzeRethrow(ok, msgLen) ==
  /\ pc = "analyze"
  /\ LET mode == analysisModes[idx]
         cs == IF ok THEN Returned(calls, "ok", 0) ELSE Returned(calls, "error", msgLen)
         c0 == Chan(progressStore, published)
         c1 == IF ok THEN logProgressCompleted(c0, sessionId, "analysis completed", mode)
               ELSE emitError(c0, sessionId, "Running analysis", mode)
         slot == IF ok THEN SuccessSlot(mode)
                 ELSE ErrorEnvelope(handleError(msgLen, "Analysis"))
     IN  /\ analysisResults' = SetSlot(analysisResults, mode, slot)
         /\ IF ~ok
            THEN Commit(c1) /\ Caught /\ calls' = cs /\ UNCHANGED idx
            ELSE ContinueLoop(c1, idx + 1, extractedText, cs)
  /\ UNCHANGED <<sessionId, file, analysisModes, extractedText, storage, db>>

\* after the model call of mode analysisModes[idx]: its slot, then the rest of the loop
PostAnalyze(ok, msgLen) ==
  /\ pc = "analyze"
  /\ LET mode == analysisModes[idx]
         cs == IF ok THEN Returned(calls, "ok", 0) ELSE Returned(calls, "error", msgLen)
         c0 == Chan(progressStore, published)
         c1 == IF ok THEN logProgressCompleted(c0, sessionId, "analysis completed", mode)
               ELSE emitError(c0, sessionId, "Running analysis", mode)
         slot == IF ok THEN SuccessSlot(mode)
                 ELSE ErrorEnvelope(handleError(msgLen, "Analysis"))
     IN  /\ analysisResults' = SetSlot(analysisResults, mode, slot)
         /\ IF c1.thrown
            THEN Commit(c1) /\ Caught /\ calls' = cs /\ UNCHANGED idx
            ELSE ContinueLoop(c1, idx + 1, extractedText, cs)
  /\ UNCHANGED <<sessionId, file, analysisModes, extractedText, storage, db>>

Row ==
  [file_type |-> file.type, file_size |-> file.size, processed |-> TRUE,
   extracted_text |-> extractedText, analysis_results |-> analysisResults,
   lease_type |-> LeaseType, analysis_modes |-> analysisModes]

\* after the insert into user_files: the final response
PostPersist(ok) ==
  /\ pc = "persist"
  /\ IF ~ok
     THEN /\ pc' = "done"
          /\ response' = Resp(500, "Database Save")
          /\ calls' = Returned(calls, "error", 0)
          /\ UNCHANGED chanVars
          /\ UNCHANGED db
     ELSE LET c == logProgressCompleted(Chan(progressStore, published), sessionId,
                                        "Upload and analysis completed successfully", "")
          IN  /\ Commit(c)
              /\ db' = Append(db, Row)
              /\ calls' = Returned(calls, "ok", 0)
              /\ IF c.thrown THEN Caught
                 ELSE /\ pc' = "done"
                      /\ response' = [status |-> 200, context |-> "", analysis |-> analysisResults,
                                       sessionId |-> sessionId]
  /\ UNCHANGED <<sessionId, file, analysisModes, extractedText, analysisResults, idx, storage>>

Next ==
  \/ \E keySet \in BOOLEAN : PostRequest(keySet) /\ UNCHANGED sideVars
  \/ \E auth \in {"user", "userError", "noUser"} : PostAuth(auth) /\ UNCHANGED sideVars
  \/ \E sid \in Sessions, f \in Files, modes \in ModeLists : PostForm(sid, f, modes) /\ UNCHANGED sideVars
  \/ \E ok \in BOOLEAN : PostBuffer(ok) /\ UNCHANGED sideVars
  \/ \E ok \in BOOLEAN : PostUpload(ok) /\ UNCHANGED sideVars
  \/ \E len \in TextLens : PostExtract(TRUE, len, 0) /\ UNCHANGED sideVars
  \/ \E msgLen \in MsgLens : PostExtract(FALSE, 0, msgLen) /\ UNCHANGED sideVars
  \/ PostAnalyze(TRUE, 0) /\ UNCHANGED sideVars
  \/ \E msgLen \in ModeMsgLens : PostAnalyze(FALSE, msgLen) /\ UNCHANGED sideVars
  \/ \E ok \in BOOLEAN : PostPersist(ok) /\ UNCHANGED sideVars
  \/ \E c \in UploadStreams, sid \in Sessions : StreamStart(c, sid) /\ UNCHANGED sideVars
  \/ \E c \in UploadStreams : Poll(c) /\ UNCHANGED sideVars
  \/ \E c \in UploadStreams : Abort(c) /\ UNCHANGED sideVars

Spec == Init /\ [][Next]_vars

\* a step of the POST handler: the call it awaits returns and the handler runs on
PostStep ==
  \/ \E keySet \in BOOLEAN : PostRequest(keySet)
  \/ \E auth \in {"user", "userError", "noUser"} : PostAuth(auth)
  \/ \E sid \in Sessions, f \in Files, modes \in ModeLists : PostForm(sid, f, modes)
  \/ \E ok \in BOOLEAN : PostBuffer(ok)
  \/ \E ok \in BOOLEAN : PostUpload(ok)
  \/ \E len \in TextLens : PostExtract(TRUE, len, 0)
  \/ \E msgLen \in MsgLens : PostExtract(FALSE, 0, msgLen)
  \/ PostAnalyze(TRUE, 0)
  \/ \E msgLen \in ModeMsgLens : PostAnalyze(FALSE, msgLen)
  \/ \E ok \in BOOLEAN : PostPersist(ok)

\* a tick of the interval of some open stream
Tick == \E c \in UploadStreams : Poll(c)

\* every awaited call of the handler returns, and setInterval keeps firing; when a
\* client connects or disconnects is up to the client
LiveSpec ==
  /\ Init
  /\ [][Next]_vars
  /\ WF_vars(PostStep /\ UNCHANGED sideVars)
  /\ WF_vars(Tick /\ UNCHANGED sideVars)

ChannelNext ==
  \/ \E c \in Streams, sid \in Sessions : StreamStart(c, sid) /\ UNCHANGED sideVars
  \/ \E c \in Streams : Poll(c) /\ UNCHANGED sideVars
  \/ \E c \in Streams : Abort(c) /\ UNCHANGED sideVars
  \/ \E sid \in Sessions, step \in ChannelSteps, status \in ChannelStatuses :
        Publish(sid, step, status) /\ UNCHANGED sideVars

ChannelSpec == Init /\ [][ChannelNext]_vars

\* =================================================== obligation extraction
\* The three handlers that turn model output into obligation records:
\* GET export-obligations (JSON.parse variant and LangChain variant) and
\* POST generate-obligations-csv.  A text is a sequence of tokens: the fences,
\* the brackets, the comma, the newline, a word of prose, a JSON object literal.
FenceJson == "<fence json>"
Fence == "<fence>"
Newline == "\n"
Word == "text"
NullLiteral == "null"

PayRecord ==
  [party |-> "Lessee", description |-> "Pay annual rent", timeline |-> "Quarterly",
   enforceability |-> "Mandatory", phase |-> "OPERATIONAL", consequence |-> "Default",
   category |-> "Payment"]

AccessRecord ==
  [party |-> "Lessor", description |-> "Grant site access", timeline |-> "",
   enforceability |-> "Required", phase |-> "PRE-CONSTRUCTION", consequence |-> "",
   category |-> "Access"]

\* the object literals of the sampled texts and the values JSON.parse gives them
ObjectTokens == {"{pay}", "{access}"}
RecordOf(tok) == IF tok = "{pay}" THEN PayRecord ELSE AccessRecord

\* what the zod schema of the LangChain variant accepts
TechnicalObligationSchema(r) ==
  /\ r.enforceability \in {"Mandatory", "Optional", "Conditional"}
  /\ r.phase \in {"GENERAL", "DEVELOPMENT", "CONSTRUCTION", "OPERATIONAL"}
  /\ r.category \in {"Payment", "Maintenance", "Compliance", "Insurance",
                     "Environmental", "Construction", "Other"}

SentinelRecord(description) ==
  [party |-> "N/A", description |-> description, timeline |-> "N/A",
   enforceability |-> "N/A", phase |-> "GENERAL", consequence |-> "N/A",
   category |-> "Information"]

NoneFound == SentinelRecord("No technical obligations found in this document")
ParseFailedRecord == SentinelRecord("Failed to extract obligations from document analysis")

\* ------------------------------------------------------------ input samples
ArrayLiteral(toks) ==
  <<"[">> \o [i \in 1..(IF toks = <<>> THEN 0 ELSE 2 * Len(toks) - 1) |->
                IF i % 2 = 1 THEN toks[(i + 1) \div 2] ELSE ","] \o <<"]">>

ObjectLists == UNION {[1..n -> ObjectTokens] : n \in 0..MaxRecords}
ArrayBodies == {ArrayLiteral(toks) : toks \in ObjectLists}
BrokenBodies == {<<"[", "{pay}">>, <<"{pay}">>, <<NullLiteral>>, <<Word>>}
Commentary == {<<>>, <<Word>>, <<"]", Word>>, <<Word, "[", Word, "]">>}
Fences == {"", FenceJson, Fence}
ModelOutputs ==
  [pre : Commentary, open : Fences, body : ArrayBodies \cup BrokenBodies, post : Commentary]

\* response.text(): the fenced body between the commentary
ResponseText(o) ==
  o.pre \o (IF o.open = "" THEN o.body
            ELSE <<o.open, Newline>> \o o.body \o <<Newline, Fence, Newline>>) \o o.post

\* a value of the obligations variable: an array of records, or what else a row or
\* JSON.parse can hold
ArrayValue(recs) == [kind |-> "array", recs |-> recs]
OtherValue(kind) == [kind |-> kind, recs |-> <<>>]
Truthy(v) == v.kind # "absent"
IsArray(v) == v.kind = "array"

PriorValues ==
  {OtherValue("absent"), OtherValue("text"), ArrayValue(<<>>), ArrayValue(<<PayRecord>>)}
Documents ==
  {d \in [file_content : BOOLEAN, analysis_results : BOOLEAN, obligations : PriorValues] :
     ~d.analysis_results => d.obligations = OtherValue("absent")}
\* what chain.invoke resolves to: an array the schema has validated
ChainResults ==
  {ArrayValue(recs) :
     recs \in UNION {[1..n -> {r \in {PayRecord, AccessRecord} : TechnicalObligationSchema(r)}] :
                       n \in 0..MaxRecords}}

\* ----------------------------------------------------- clean-up and parse
\* s.replace(/<fence>\n?/g, ""): every fence token, with the newline after it
RECURSIVE Replace(_, _)
Replace(s, fence) ==
  IF s = <<>> THEN <<>>
  ELSE IF Head(s) = fence
       THEN IF Len(s) > 1 /\ s[2] = Newline THEN Replace(SubSeq(s, 3, Len(s)), fence)
            ELSE Replace(Tail(s), fence)
       ELSE <<Head(s)>> \o Replace(Tail(s), fence)

RECURSIVE Trim(_)
Trim(s) ==
  IF s = <<>> THEN s
  ELSE IF Head(s) = Newline THEN Trim(Tail(s))
  ELSE IF s[Len(s)] = Newline THEN Trim(SubSeq(s, 1, Len(s) - 1))
  ELSE s

\* indexOf and lastIndexOf, counted from 1, with 0 for not found
IndexOf(s, tok) ==
  IF \E i \in 1..Len(s) : s[i] = tok
  THEN CHOOSE i \in 1..Len(s) : s[i] = tok /\ \A j \in 1..(i - 1) : s[j] # tok
  ELSE 0

\* mutant: the closing bracket is searched from the front (indexOf for lastIndexOf)
LastIndexOfFirst(s, tok) ==
  IF \E i \in 1..Len(s) : s[i] = tok
  THEN CHOOSE i \in 1..Len(s) : s[i] = tok /\ \A j \in 1..(i - 1) : s[j] # tok
  ELSE 0

LastIndexOf(s, tok) ==
  IF \E i \in 1..Len(s) : s[i] = tok
  THEN CHOOSE i \in 1..Len(s) : s[i] = tok /\ \A j \in (i + 1)..Len(s) : s[j] # tok
  ELSE 0

\* the clean-up of the model's text: strip the fences, trim, slice the brackets
CleanUp(text) ==
  LET t == Trim(Replace(Replace(text, FenceJson), Fence))
      jsonStart == IndexOf(t, "[")
      jsonEnd == LastIndexOf(t, "]")
  IN  IF jsonStart # 0 /\ jsonEnd # 0 /\ jsonEnd > jsonStart
      THEN SubSeq(t, jsonStart, jsonEnd)
      ELSE t

\* JSON.parse on a token text: an array of object literals, one object literal,
\* null, or a SyntaxError
JSONparse(text) ==
  LET t == SelectSeq(text, LAMBDA tok : tok # Newline)
      inner == SubSeq(t, 2, Len(t) - 1)
  IN  IF /\ Len(t) >= 2 /\ t[1] = "[" /\ t[Len(t)] = "]"
         /\ (inner = <<>> \/ Len(inner) % 2 = 1)
         /\ \A i \in 1..Len(inner) :
              IF i % 2 = 1 THEN inner[i] \in ObjectTokens ELSE inner[i] = ","
      THEN ArrayValue([k \in 1..((Len(inner) + 1) \div 2) |-> RecordOf(inner[2 * k - 1])])
      ELSE IF Len(t) = 1 /\ t[1] \in ObjectTokens THEN OtherValue("object")
      ELSE IF t = <<NullLiteral>> THEN OtherValue("null")
      ELSE OtherValue("SyntaxError")

\* the try block around JSON.parse: the parse and the read of obligations.length,
\* which throws on null
ParseThrows(text) == JSONparse(text).kind \in {"SyntaxError", "null"}

\* 'Ensure obligations is an array', then the record put in place of an empty list
EnsureArray(v) == IF IsArray(v) THEN v.recs ELSE <<>>
OrNoneFound(recs) == IF recs = <<>> THEN <<NoneFound>> ELSE recs

\* a finished request: the status, the error text, the records that were exported
Ok(recs) == [status |-> 200, error |-> "", obligations |-> recs]
Failed(status, error) == [status |-> status, error |-> error, obligations |-> <<>>]

\* generateExcelFile: the filters throw on a value that is not an array
generateExcelFile(v) ==
  IF IsArray(v) THEN Ok(v.recs) ELSE Failed(500, "Failed to generate Excel file")

Finish(resp, steps) ==
  /\ xpc' = "done"
  /\ exportResponse' = resp
  /\ taken' = taken \cup steps

\* GET export-obligations up to the awaited user_files select
GetUser(h, auth) ==
  /\ xpc = "request"
  /\ handler' = h
  /\ IF auth # "user"
     THEN Finish(Failed(401, "Unauthorized"), {})
     ELSE xpc' = "document" /\ UNCHANGED <<exportResponse, taken>>
  /\ UNCHANGED <<document, modelOutput, obligationsText, obligations>>

\* mutant: a previously persisted value is never used, the parse failure is final
HasPriorNever(doc) == FALSE

\* document.analysis_results && document.analysis_results.obligations
HasPrior(doc) == doc.analysis_results /\ Truthy(doc.obligations)

\* the LangChain parsers are set up before the chain is invoked; when that throws,
\* the persisted value goes to the workbook as it is
SetUp(doc, setupOk) ==
  IF handler = "GET/langchain" /\ ~setupOk
  THEN IF HasPrior(doc)
       THEN /\ obligations' = doc.obligations
            /\ Finish(generateExcelFile(doc.obligations), {"setup-failed", "prior"})
       ELSE /\ Finish(Failed(500, "Failed to set up LangChain parsers"), {"setup-failed"})
            /\ UNCHANGED obligations
  ELSE xpc' = "generate" /\ UNCHANGED <<exportResponse, taken, obligations>>

\* after the select: the key, the text source, and in the LangChain variant the parsers
GetDocument(found, doc, keySet, setupOk) ==
  /\ xpc = "document"
  /\ IF ~found
     THEN Finish(Failed(404, "Document not found"), {}) /\ UNCHANGED <<document, obligations>>
     ELSE /\ document' = doc
          /\ IF ~keySet
             THEN Finish(Failed(500, "API key not configured"), {}) /\ UNCHANGED obligations
             ELSE IF ~doc.file_content
             THEN xpc' = "download" /\ UNCHANGED <<exportResponse, taken, obligations>>
             ELSE SetUp(doc, setupOk)
  /\ UNCHANGED <<handler, modelOutput, obligationsText>>

\* after the storage download of a document without file_content
Download(fileError, setupOk) ==
  /\ xpc = "download"
  /\ IF fileError
     THEN Finish(Failed(500, "Failed to access document"), {}) /\ UNCHANGED obligations
     ELSE IF ~document.analysis_results
     THEN Finish(Failed(400, "Document not processed yet"), {}) /\ UNCHANGED obligations
     ELSE SetUp(document, setupOk)
  /\ UNCHANGED <<handler, document, modelOutput, obligationsText>>

\* JSON.parse variant, after model.generateContent: clean-up, parse, fallback, CSV
GenerateContent(ok, reply) ==
  /\ xpc = "generate"
  /\ handler = "GET/json-parse"
  /\ IF ~ok
     THEN /\ Finish(Failed(500, "Internal server error"), {"model-failed"})
          /\ UNCHANGED <<modelOutput, obligationsText, obligations>>
     ELSE LET text == CleanUp(ResponseText(reply))
          IN  /\ modelOutput' = reply
              /\ obligationsText' = text
              /\ IF ~ParseThrows(text)
                 THEN /\ obligations' = JSONparse(text)
                      /\ Finish(Ok(OrNoneFound(EnsureArray(JSONparse(text)))),
                                {"parsed"} \cup (IF EnsureArray(JSONparse(text)) = <<>>
                                                 THEN {"sentinel"} ELSE {}))
                 ELSE IF HasPrior(document)
                 THEN /\ obligations' = document.obligations
                      /\ Finish(Ok(OrNoneFound(EnsureArray(document.obligations))),
                                {"parse-failed", "prior"}
                                  \cup (IF EnsureArray(document.obligations) = <<>>
                                        THEN {"sentinel"} ELSE {}))
                 ELSE /\ Finish(Failed(500, "Failed to extract obligations"), {"parse-failed"})
                      /\ UNCHANGED obligations
  /\ UNCHANGED <<handler, document>>

\* LangChain variant, after chain.invoke: the parsed or repaired array, or the throw
\* of the output-fixing parser; then fallback and the workbook
ChainInvoke(ok, result) ==
  /\ xpc = "generate"
  /\ handler = "GET/langchain"
  /\ IF ok
     THEN /\ obligations' = result
          /\ Finish(generateExcelFile(ArrayValue(OrNoneFound(EnsureArray(result)))),
                    {"parsed"} \cup (IF EnsureArray(result) = <<>> THEN {"sentinel"} ELSE {}))
     ELSE IF HasPrior(document)
     THEN /\ obligations' = document.obligations
          /\ Finish(generateExcelFile(ArrayValue(OrNoneFound(EnsureArray(document.obligations)))),
                    {"parse-failed", "prior"}
                      \cup (IF EnsureArray(document.obligations) = <<>>
                            THEN {"sentinel"} ELSE {}))
     ELSE /\ Finish(Failed(500, "Failed to extract obligations"), {"parse-failed"})
          /\ UNCHANGED obligations
  /\ UNCHANGED <<handler, document, modelOutput, obligationsText>>

\* POST generate-obligations-csv up to the awaited model.generateContent
PostJson(hasText, keySet) ==
  /\ xpc = "request"
  /\ handler' = "POST/csv"
  /\ IF ~hasText THEN Finish(Failed(400, "No analysis text provided"), {})
     ELSE IF ~keySet THEN Finish(Failed(500, "API key not configured"), {})
     ELSE xpc' = "generate" /\ UNCHANGED <<exportResponse, taken>>
  /\ UNCHANGED <<document, modelOutput, obligationsText, obligations>>

\* POST generate-obligations-csv after model.generateContent
PostGenerateContent(ok, reply) ==
  /\ xpc = "generate"
  /\ handler = "POST/csv"
  /\ IF ~ok
     THEN /\ Finish(Failed(500, "Internal server error"), {"model-failed"})
          /\ UNCHANGED <<modelOutput, obligationsText, obligations>>
     ELSE LET text == CleanUp(ResponseText(reply))
              v == IF ParseThrows(text) THEN ArrayValue(<<ParseFailedRecord>>)
                   ELSE JSONparse(text)
          IN  /\ modelOutput' = reply
              /\ obligationsText' = text
              /\ obligations' = v
              /\ Finish(Ok(OrNoneFound(EnsureArray(v))),
                        (IF ParseThrows(text) THEN {"parse-failed", "sentinel"} ELSE {"parsed"})
                          \cup (IF EnsureArray(v) = <<>> THEN {"sentinel"} ELSE {}))
  /\ UNCHANGED <<handler, document>>

ExtractNext ==
  \/ \E h \in {"GET/json-parse", "GET/langchain"}, auth \in {"user", "noUser"} :
        GetUser(h, auth) /\ UNCHANGED otherThanExtract
  \/ \E found \in BOOLEAN, doc \in Documents, keySet \in BOOLEAN, setupOk \in BOOLEAN :
        GetDocument(found, doc, keySet, setupOk) /\ UNCHANGED otherThanExtract
  \/ \E fileError \in BOOLEAN, setupOk \in BOOLEAN :
        Download(fileError, setupOk) /\ UNCHANGED otherThanExtract
  \/ \E ok \in BOOLEAN, reply \in ModelOutputs :
        GenerateContent(ok, reply) /\ UNCHANGED otherThanExtract
  \/ \E ok \in BOOLEAN, result \in ChainResults :
        ChainInvoke(ok, result) /\ UNCHANGED otherThanExtract
  \/ \E hasText \in BOOLEAN, keySet \in BOOLEAN :
        PostJson(hasText, keySet) /\ UNCHANGED otherThanExtract
  \/ \E ok \in BOOLEAN, reply \in ModelOutputs :
        PostGenerateContent(ok, reply) /\ UNCHANGED otherThanExtract

ExtractSpec == Init /\ [][ExtractNext]_vars

\* ==================================================================== chat
\* POST /api/chat and the ChatService it calls.  A message is the sequence of its
\* characters.
summarizationKeywords ==
  {<<"s", "u", "m", "m", "a", "r", "i", "z", "e">>,
   <<"s", "u", "m", "m", "a", "r", "y">>,
   <<"o", "v", "e", "r", "v", "i", "e", "w">>,
   <<"a", "n", "a", "l", "y", "z", "e", " ", "a", "l", "l">>,
   <<"a", "l", "l", " ", "d", "o", "c", "u", "m", "e", "n", "t", "s">>,
   <<"c", "o", "m", "p", "a", "r", "e", " ", "a", "l", "l">>,
   <<"w", "h", "a", "t", " ", "a", "r", "e", " ", "t", "h", "e">>,
   <<"c", "o", "m", "m", "o", "n">>,
   <<"p", "a", "t", "t", "e", "r", "n", "s">>,
   <<"t", "r", "e", "n", "d", "s">>,
   <<"a", "c", "r", "o", "s", "s", " ", "a", "l", "l">>,
   <<"p", "o", "r", "t", "f", "o", "l", "i", "o">>,
   <<"o", "v", "e", "r", "a", "l", "l">>,
   <<"k", "e", "y", " ", "i", "n", "s", "i", "g", "h", "t", "s">>,
   <<"m", "a", "i", "n", " ", "p", "o", "i", "n", "t", "s">>,
   <<"h", "i", "g", "h", "l", "i", "g", "h", "t">>,
   <<"b", "r", "e", "a", "k", "d", "o", "w", "n">>,
   <<"c", "o", "m", "p", "r", "e", "h", "e", "n", "s", "i", "v", "e">>,
   <<"f", "u", "l", "l", " ", "a", "n", "a", "l", "y", "s", "i", "s">>}

UpperCase == <<"A", "B", "C", "D", "E", "F", "G", "H", "I", "J", "K", "L", "M", "N", "O", "P", "Q", "R", "S", "T", "U", "V", "W", "X", "Y", "Z">>
LowerCase == <<"a", "b", "c", "d", "e", "f", "g", "h", "i", "j", "k", "l", "m", "n", "o", "p", "q", "r", "s", "t", "u", "v", "w", "x", "y", "z">>

LowerOf ==
  [c \in {UpperCase[k] : k \in 1..Len(UpperCase)} |->
     LowerCase[CHOOSE k \in 1..Len(UpperCase) : UpperCase[k] = c]]

toLowerCase(s) ==
  [i \in 1..Len(s) |-> IF s[i] \in DOMAIN LowerOf THEN LowerOf[s[i]] ELSE s[i]]

includes(s, keyword) ==
  \E i \in 1..(Len(s) - Len(keyword) + 1) : SubSeq(s, i, i + Len(keyword) - 1) = keyword

\* mutant: the message is compared as typed (no toLowerCase)
isSummarizationQueryCaseSensitive(msg) ==
  \E keyword \in summarizationKeywords : includes(msg, keyword)

isSummarizationQuery(msg) ==
  LET lowerMessage == toLowerCase(msg)
  IN  \E keyword \in summarizationKeywords : includes(lowerMessage, keyword)

\* ------------------------------------------------------------ input samples
\* pieces of request text, and the texts made of at most n of them in this order
Fragments ==
  <<<<"S", "u", "m", "m", "a", "r", "i", "z", "e">>,
    <<" ", "m", "y", " ", "d", "o", "c", "u", "m", "e", "n", "t", "s">>,
    <<"o", "v", "e", "r">>,
    <<"v", "i", "e", "w">>,
    <<"W", "h", "a", "t", " ", "i", "s", " ", "t", "h", "e", " ", "r", "e", "n", "t">>>>

RECURSIVE MessagesFrom(_, _)
MessagesFrom(i, n) ==
  IF n = 0 \/ i > Len(Fragments) THEN {<<>>}
  ELSE MessagesFrom(i + 1, n) \cup {Fragments[i] \o m : m \in MessagesFrom(i + 1, n - 1)}

Messages(n) == MessagesFrom(1, n)

\* a stored document: a value of analysis_results.standard is a clause array or
\* anything else; legal.risks is a list or missing
Clauses(n) == [isArray |-> TRUE, length |-> n]
NotAnArray == [isArray |-> FALSE, length |-> 0]
Missing == [present |-> FALSE, values |-> <<>>, length |-> 0]
Standard(values) == [present |-> TRUE, values |-> values, length |-> 0]
Risks(n) == [present |-> TRUE, values |-> <<>>, length |-> n]

\* the values analysis_results holds, as JavaScript sees them: undefined, a boolean or
\* string, an array of items, an object with its keys in insertion order
Undefined == [type |-> "undefined", items |-> <<>>, keys |-> <<>>, vals |-> <<>>]
Primitive == [type |-> "primitive", items |-> <<>>, keys |-> <<>>, vals |-> <<>>]
Array(items) == [type |-> "array", items |-> items, keys |-> <<>>, vals |-> <<>>]
Object(keys, vals) == [type |-> "object", items |-> <<>>, keys |-> keys, vals |-> vals]

\* o.key and o?.key
Prop(o, key) ==
  IF o.type = "object" /\ \E i \in DOMAIN o.keys : o.keys[i] = key
  THEN o.vals[CHOOSE i \in DOMAIN o.keys : o.keys[i] = key]
  ELSE Undefined

IsTruthy(v) == v.type # "undefined"
Length(v) == Len(v.items)

\* the object the upload handler stores for a mode that threw
EnvelopeObject == Object(<<"error", "message", "timestamp">>, <<Primitive, Primitive, Primitive>>)

\* doc.analysis_results.standard and doc.analysis_results.legal?.risks of a row
StandardOf(v) ==
  IF ~IsTruthy(v) THEN Missing
  ELSE Standard([i \in DOMAIN v.vals |->
                   IF v.vals[i].type = "array" THEN Clauses(Length(v.vals[i])) ELSE NotAnArray])
RisksOf(v) == IF IsTruthy(v) THEN Risks(Length(v)) ELSE Missing

\* a row of user_files
Document(file_name, lease_type, analysis_modes, results) ==
  [file_name |-> file_name, lease_type |-> lease_type, analysis_modes |-> analysis_modes,
   analysis_results |-> IsTruthy(results),
   standard |-> StandardOf(Prop(results, "standard")),
   risks |-> RisksOf(Prop(Prop(results, "legal"), "risks")),
   results |-> results]

\* the sampled rows: risks, timeline and obligations are arrays wherever they exist
DocSamples ==
  {Document("a.pdf", "solar", <<"standard", "legal">>,
            Object(<<"standard", "legal", "renewal", "obligations", "redlining">>,
                   <<Object(<<"GENERAL", "OPERATIONAL">>,
                            <<Array(<<"clause", "clause">>), Array(<<"clause">>)>>),
                     Object(<<"risks">>, <<Array(<<"High", "Medium">>)>>),
                     Object(<<"timeline">>, <<Array(<<"event">>)>>),
                     Object(<<"obligations">>, <<Array(<<"duty", "duty">>)>>),
                     Object(<<"additions">>, <<Array(<<"change">>)>>)>>)),
   Document("b.pdf", "wind", <<"legal", "standard">>,
            Object(<<"legal", "standard">>,
                   <<EnvelopeObject,
                     Object(<<"GENERAL", "summary">>, <<Array(<<"clause">>), Primitive>>)>>)),
   Document("c.pdf", "", <<>>, Undefined),
   Document("d.pdf", "solar", <<"standard", "renewal", "obligations", "redlining">>,
            Object(<<"standard", "renewal", "obligations", "redlining">>,
                   <<EnvelopeObject, EnvelopeObject, EnvelopeObject, EnvelopeObject>>))}

DocLists == UNION {[1..n -> DocSamples] : n \in 0..MaxDocs}

\* mutant: a value is pushed without the includes test
PushNewAlways(list, v) == Append(list, v)

\* if (!list.includes(v)) list.push(v)
PushNew(list, v) ==
  IF \E i \in 1..Len(list) : list[i] = v THEN list ELSE Append(list, v)

RECURSIVE PushAll(_, _)
PushAll(list, vs) == IF vs = <<>> THEN list ELSE PushAll(PushNew(list, Head(vs)), Tail(vs))

\* the forEach over Object.values(standard): the lengths of the values that are arrays
RECURSIVE CountClauses(_)
CountClauses(values) ==
  IF values = <<>> THEN 0
  ELSE (IF Head(values).isArray THEN Head(values).length ELSE 0) + CountClauses(Tail(values))

NoContext ==
  [overview |-> FALSE, totalDocs |-> 0, leaseTypes |-> <<>>, analysisModes |-> <<>>,
   totalClauses |-> 0, totalRisks |-> 0]

\* the body of documentsData.forEach, applied to the totals gathered so far
AddDocument(ctx, doc) ==
  [ctx EXCEPT
     !.leaseTypes = IF doc.lease_type # "" THEN PushNew(@, doc.lease_type) ELSE @,
     !.analysisModes = PushAll(@, doc.analysis_modes),
     !.totalClauses = IF doc.analysis_results /\ doc.standard.present
                      THEN @ + CountClauses(doc.standard.values) ELSE @,
     !.totalRisks = IF doc.analysis_results /\ doc.risks.present
                    THEN @ + doc.risks.length ELSE @]

RECURSIVE forEach(_, _)
forEach(ctx, docs) ==
  IF docs = <<>> THEN ctx ELSE forEach(AddDocument(ctx, Head(docs)), Tail(docs))

\* the values the 'Portfolio Overview' text is rendered from; without documents the
\* text is 'No documents available for portfolio analysis.'
extractMultiDocumentContext(docs) ==
  IF docs = <<>> THEN NoContext
  ELSE forEach([NoContext EXCEPT !.overview = TRUE, !.totalDocs = Len(docs)], docs)

\* a line of a context text: its wording, the names and the numbers it prints
Line(label, names, counts) == [label |-> label, names |-> names, counts |-> counts]

KeyObligations == 3
RenewalEvents == 2

Filter(v, severities) == SelectSeq(v.items, LAMBDA r : r \in severities)
Slice(v, n) == SubSeq(v.items, 1, IF Length(v) < n THEN Length(v) ELSE n)

\* the forEach over Object.entries(standard): a line per non-empty array
RECURSIVE ClauseLines(_, _)
ClauseLines(keys, vals) ==
  IF keys = <<>> THEN <<>>
  ELSE (IF Head(vals).type = "array" /\ Length(Head(vals)) > 0
        THEN <<Line("clauses identified", <<Head(keys)>>, <<Length(Head(vals))>>)>>
        ELSE <<>>) \o ClauseLines(Tail(keys), Tail(vals))

\* const {additions = [], removals = [], modifications = []} = redlining
OrEmpty(v) == IF IsTruthy(v) THEN v ELSE Array(<<>>)

\* the lines of the 'Document Context' of the single-document prompt
extractAnalysisContext(results) ==
  IF ~IsTruthy(results)
  THEN <<Line("No analysis results available for this document.", <<>>, <<>>)>>
  ELSE LET standard == Prop(results, "standard")
           risks == Prop(Prop(results, "legal"), "risks")
           timeline == Prop(Prop(results, "renewal"), "timeline")
           mapped == Prop(Prop(results, "obligations"), "obligations")
           redlining == Prop(results, "redlining")
           highRisks == Filter(risks, {"High", "Critical"})
           mediumRisks == Filter(risks, {"Medium"})
           context ==
             (IF IsTruthy(standard)
              THEN <<Line("Analysis covers phases", standard.keys, <<Len(standard.keys)>>)>>
                     \o ClauseLines(standard.keys, standard.vals)
              ELSE <<>>)
             \o (IF IsTruthy(risks) /\ Len(highRisks) > 0
                 THEN <<Line("High/Critical Risks", <<>>, <<Len(highRisks)>>)>> ELSE <<>>)
             \o (IF IsTruthy(risks) /\ Len(mediumRisks) > 0
                 THEN <<Line("Medium Risks", <<>>, <<Len(mediumRisks)>>)>> ELSE <<>>)
             \o (IF IsTruthy(timeline)
                 THEN <<Line("Timeline Events", <<>>, <<Length(timeline)>>)>> ELSE <<>>)
             \o (IF IsTruthy(mapped)
                 THEN <<Line("Obligations", <<>>, <<Length(mapped)>>)>> ELSE <<>>)
             \o (IF IsTruthy(redlining)
                 THEN <<Line("Redlining Changes", <<>>,
                             <<Length(OrEmpty(Prop(redlining, "additions"))),
                               Length(OrEmpty(Prop(redlining, "removals"))),
                               Length(OrEmpty(Prop(redlining, "modifications")))>>)>>
                 ELSE <<>>)
             \o (IF IsTruthy(Prop(results, "lease_type"))
                 THEN <<Line("Lease Type", <<>>, <<>>)>> ELSE <<>>)
       IN  IF context = <<>>
           THEN <<Line("Analysis data is available for detailed questions.", <<>>, <<>>)>>
           ELSE context

\* the body of the forEach of extractDetailedDocumentContent
DocumentContent(doc, index) ==
  LET risks == Prop(Prop(doc.results, "legal"), "risks")
      mapped == Prop(Prop(doc.results, "obligations"), "obligations")
      timeline == Prop(Prop(doc.results, "renewal"), "timeline")
      standard == Prop(doc.results, "standard")
      highRisks == Filter(risks, {"High", "Critical"})
  IN  <<Line("Document", <<doc.file_name>>, <<index>>)>>
      \o (IF doc.lease_type # "" THEN <<Line("Lease Type", <<doc.lease_type>>, <<>>)>> ELSE <<>>)
      \o (IF IsTruthy(risks) /\ Len(highRisks) > 0
          THEN <<Line("Key Risks", highRisks, <<>>)>> ELSE <<>>)
      \o (IF IsTruthy(mapped) /\ Len(Slice(mapped, KeyObligations)) > 0
          THEN <<Line("Key Obligations", Slice(mapped, KeyObligations), <<>>)>> ELSE <<>>)
      \o (IF IsTruthy(timeline) /\ Len(Slice(timeline, RenewalEvents)) > 0
          THEN <<Line("Renewal Timeline", Slice(timeline, RenewalEvents), <<>>)>> ELSE <<>>)
      \o (IF IsTruthy(standard) THEN <<Line("Analysis Phases", standard.keys, <<>>)>> ELSE <<>>)

RECURSIVE ContentFrom(_, _)
ContentFrom(docs, index) ==
  IF docs = <<>> THEN <<>>
  ELSE DocumentContent(Head(docs), index) \o ContentFrom(Tail(docs), index + 1)

\* the lines of the 'Available Document Details' of the summarization prompt
extractDetailedDocumentContent(docs) ==
  IF docs = <<>> THEN <<Line("No detailed document content available.", <<>>, <<>>)>>
  ELSE ContentFrom(docs, 1)

\* chatWithDocument and chatWithProject up to their awaited model.generateContent
chatWithDocument(msg, results) ==
  [systemPrompt |-> "document", context |-> NoContext,
   analysisContext |-> extractAnalysisContext(results), details |-> <<>>,
   question |-> msg]

chatWithProject(msg, docs) ==
  [systemPrompt |-> IF isSummarizationQuery(msg) THEN "summarization" ELSE "comparative",
   context |-> extractMultiDocumentContext(docs),
   analysisContext |-> <<>>,
   details |-> IF isSummarizationQuery(msg) THEN extractDetailedDocumentContent(docs) ELSE <<>>,
   question |-> msg]

\* what the service returns: the model's text, or the apology its catch builds
ModelText == [apology |-> FALSE, text |-> "response.text()"]
Apology(about) == [apology |-> TRUE, text |-> about]

ChatDone(status, error) ==
  /\ cpc' = "done"
  /\ chatResponse' = [status |-> status, error |-> error, message |-> ModelText,
                      chatType |-> ""]

\* the rows of chat_sessions before the request: one of the caller, one of another user
Caller == "user.id"
StoredSessions == {[id |-> "session-1", user_id |-> Caller],
                   [id |-> "session-2", user_id |-> "another user"]}
SessionIds == {NoSession} \cup {s.id : s \in StoredSessions}

\* chat_sessions .eq('id', sessionId) .eq('user_id', user.id)
OwnSession(sid) == \E s \in StoredSessions : s.id = sid /\ s.user_id = Caller

\* POST /api/chat up to the awaited request.json()
ChatAuth(auth, keySet) ==
  /\ cpc = "request"
  /\ IF auth # "user" THEN ChatDone(401, "Unauthorized")
     ELSE IF ~keySet THEN ChatDone(500, "AI service is not configured. Please contact support.")
     ELSE cpc' = "json" /\ UNCHANGED chatResponse
  /\ UNCHANGED <<message, chatType, currentSessionId, documentsData, fullPrompt,
                 chat_messages, generated>>

\* after request.json(): the required fields, up to the first select
ChatJson(msg, fileId, projectId, fileIds, sid) ==
  /\ cpc = "json"
  /\ message' = msg
  /\ IF msg = <<>> \/ (~fileId /\ ~projectId)
     THEN /\ ChatDone(400, "Message and either file ID or project ID are required")
          /\ UNCHANGED <<chatType, currentSessionId>>
     ELSE /\ cpc' = IF fileId \/ fileIds THEN "select" ELSE "file_ids"
          /\ chatType' = IF fileId THEN "document" ELSE "project"
          /\ currentSessionId' = sid
          /\ UNCHANGED chatResponse
  /\ UNCHANGED <<documentsData, fullPrompt, chat_messages, generated>>

\* project chat without fileIds: after the select of the session's file_ids
ChatFileIds(found) ==
  /\ cpc = "file_ids"
  /\ IF ~(found /\ OwnSession(currentSessionId)) THEN ChatDone(404, "Session file IDs not found")
     ELSE cpc' = "select" /\ UNCHANGED chatResponse
  /\ UNCHANGED <<message, chatType, currentSessionId, documentsData, fullPrompt,
                 chat_messages, generated>>

\* after the select from user_files, up to the insert of the session or the message
ChatSelect(found, docs) ==
  /\ cpc = "select"
  /\ IF ~found
     THEN /\ ChatDone(404, IF chatType = "document" THEN "File not found"
                           ELSE "Project files not found")
          /\ UNCHANGED documentsData
     ELSE /\ chatType = "document" => Len(docs) = 1
          /\ documentsData' = docs
          /\ cpc' = IF currentSessionId = NoSession THEN "session" ELSE "message"
          /\ UNCHANGED chatResponse
  /\ UNCHANGED <<message, chatType, currentSessionId, fullPrompt, chat_messages, generated>>

\* a request without sessionId: after the insert into chat_sessions
ChatSession(ok) ==
  /\ cpc = "session"
  /\ IF ~ok
     THEN ChatDone(500, "Failed to create chat session") /\ UNCHANGED currentSessionId
     ELSE /\ currentSessionId' = "newSession.id"
          /\ cpc' = "message"
          /\ UNCHANGED chatResponse
  /\ UNCHANGED <<message, chatType, documentsData, fullPrompt, chat_messages, generated>>

\* after the insert of the user's message: the prompt, up to model.generateContent
ChatSaveMessage(ok) ==
  /\ cpc = "message"
  /\ IF ~ok
     THEN /\ ChatDone(500, "Failed to save message")
          /\ UNCHANGED <<chat_messages, fullPrompt>>
     ELSE /\ chat_messages' = Append(chat_messages,
                                     [session_id |-> currentSessionId, role |-> "user",
                                      content |-> [apology |-> FALSE, text |-> "message"]])
          /\ fullPrompt' = IF chatType = "document"
                           THEN chatWithDocument(message, documentsData[1].results)
                           ELSE chatWithProject(message, documentsData)
          /\ cpc' = "generate"
          /\ UNCHANGED chatResponse
  /\ UNCHANGED <<message, chatType, currentSessionId, documentsData, generated>>

\* after model.generateContent: the text the service returns, up to the insert of it
ChatGenerate(ok) ==
  /\ cpc = "generate"
  /\ generated' = IF ok THEN "ok" ELSE "error"
  /\ cpc' = "response"
  /\ UNCHANGED <<message, chatType, currentSessionId, documentsData, fullPrompt,
                 chat_messages, chatResponse>>

\* the string chatService returned to the route
ServiceResult ==
  IF generated = "ok" THEN ModelText
  ELSE Apology(IF chatType = "document" THEN "your request"
               ELSE "your portfolio analysis request")

\* after the insert of the assistant's message: the response
ChatSaveResponse(ok) ==
  /\ cpc = "response"
  /\ IF ~ok
     THEN ChatDone(500, "Failed to save response") /\ UNCHANGED chat_messages
     ELSE /\ chat_messages' = Append(chat_messages,
                                     [session_id |-> currentSessionId, role |-> "assistant",
                                      content |-> ServiceResult])
          /\ cpc' = "done"
          /\ chatResponse' = [status |-> 200, error |-> "", message |-> ServiceResult,
                              chatType |-> chatType]
  /\ UNCHANGED <<message, chatType, currentSessionId, documentsData, fullPrompt, generated>>

ChatNext ==
  \/ \E auth \in {"user", "noUser"}, keySet \in BOOLEAN :
        ChatAuth(auth, keySet) /\ UNCHANGED otherThanChat
  \/ \E msg \in Messages(MaxWords), fileId \in BOOLEAN, projectId \in BOOLEAN,
        fileIds \in BOOLEAN, sid \in SessionIds :
        ChatJson(msg, fileId, projectId, fileIds, sid) /\ UNCHANGED otherThanChat
  \/ \E found \in BOOLEAN : ChatFileIds(found) /\ UNCHANGED otherThanChat
  \/ \E found \in BOOLEAN, docs \in DocLists :
        ChatSelect(found, docs) /\ UNCHANGED otherThanChat
  \/ \E ok \in BOOLEAN : ChatSession(ok) /\ UNCHANGED otherThanChat
  \/ \E ok \in BOOLEAN : ChatSaveMessage(ok) /\ UNCHANGED otherThanChat
  \/ \E ok \in BOOLEAN : ChatGenerate(ok) /\ UNCHANGED otherThanChat
  \/ \E ok \in BOOLEAN : ChatSaveResponse(ok) /\ UNCHANGED otherThanChat

ChatSpec == Init /\ [][ChatNext]_vars

\* ================================================================ claims
Requested == {analysisModes[i] : i \in 1..Len(analysisModes)}
KnownPositions == {i \in 1..Len(analysisModes) : analysisModes[i] \in Registry}
CallsOf(kind) == {i \in 1..Len(calls) : calls[i].kind = kind}
FailedModeCalls == {i \in CallsOf("analyze") : calls[i].result = "error"}
PendingCalls == {i \in 1..Len(calls) : calls[i].result = "pending"}
ExtractReturned == \E i \in CallsOf("extract") : calls[i].result # "pending"
ReturnedOk == pc = "done" /\ response.status = 200

\* C1: a run that returns successfully with requested modes drawn from the registry
\* returns a per-mode mapping whose key set is exactly the set of requested names,
\* whichever mode calls failed.
C1_ResultKeysAreRequestedModes ==
  (ReturnedOk /\ Requested \subseteq Registry) => DOMAIN response.analysis = Requested

C1_Witness ==
  /\ ReturnedOk
  /\ Requested \subseteq Registry
  /\ Cardinality(Requested) = 2
  /\ FailedModeCalls # {}
  /\ \E m \in Requested : response.analysis[m].error

\* C2: when the text passed the gate and exactly one mode call threw, the run is not
\* aborted: every mode with a prompt is still called, the insert is still made, and
\* if the insert succeeds the run ends with the success response and one stored row.
C2_SingleModeFailureDoesNotAbort ==
  (pc = "done" /\ Cardinality(FailedModeCalls) = 1) =>
     /\ Cardinality(CallsOf("analyze")) = Cardinality(KnownPositions)
     /\ Cardinality(CallsOf("insert")) = 1
     /\ \A i \in CallsOf("insert") :
          calls[i].result = "ok" => (response.status = 200 /\ Len(db) = 1)

C2_Witness ==
  /\ ReturnedOk
  /\ Cardinality(FailedModeCalls) = 1
  /\ Cardinality(CallsOf("analyze")) = 2
  /\ \E i \in FailedModeCalls : \E j \in CallsOf("analyze") : i < j /\ calls[j].result = "ok"
  /\ Len(db) = 1

\* C3: whenever the extracted text is shorter than 100 characters the run ends at the
\* content gate with the 400 response: no analysis-mode call and no insert is made.
C3_ShortTextStopsAtGate ==
  (ExtractReturned /\ extractedText.len < MinTextLen) =>
     /\ pc = "done"
     /\ response.status = 400
     /\ response.context = "Text Analysis Prerequisite"
     /\ CallsOf("analyze") = {}
     /\ CallsOf("insert") = {}
     /\ db = <<>>

C3_Witness ==
  /\ ExtractReturned
  /\ ~extractedText.failed
  /\ extractedText.len = MinTextLen - 1
  /\ pc = "done"

Queue(s) == IF s \in progressStore.keys THEN progressStore.arr[s] ELSE <<>>
Evs(s) == [i \in 1..Len(delivered[s]) |-> delivered[s][i].ev]
IsProgress(m) == m.type = "progress"
Sent(c) == SelectSeq(out[c], IsProgress)
Increasing(evs) == \A i \in 1..Len(evs) : \A j \in 1..Len(evs) :
                     i < j => evs[i].timestamp < evs[j].timestamp

\* C4: within a session events are delivered in publication order: every delivered
\* event is a published one, the delivered events (over all batches, and on each
\* stream) keep the publication order without repeats, and as long as the session was
\* never disposed the delivered events followed by the queued ones are exactly the
\* publication sequence.
C4_FifoDelivery ==
  /\ \A s \in Sessions :
       /\ \A i \in 1..Len(Evs(s)) :
            /\ Evs(s)[i].timestamp \in 1..Len(published[s])
            /\ Evs(s)[i] = published[s][Evs(s)[i].timestamp]
       /\ Increasing(Evs(s))
       /\ ~hist[s].disposed => Evs(s) \o Queue(s) = published[s]
  /\ \A c \in Streams : Increasing(Sent(c))

C4_Witness ==
  \E s \in Sessions :
    /\ hist[s].coalesced
    /\ ~hist[s].disposed
    /\ Len(delivered[s]) >= 2
    /\ \E c \in Streams : Len(Sent(c)) >= 2

\* C5: drain is destructive: after a drain of a session, and until the next publish to
\* it, its queue is empty and no further step (a second drain in particular) delivers
\* any event of that session.
C5_DrainIsDestructive ==
  /\ [](\A s \in Sessions : hist[s].row >= 1 => Queue(s) = <<>>)
  /\ [][\A s \in Sessions : hist[s].row >= 1 => delivered'[s] = delivered[s]]_vars

C5_Witness ==
  \E s \in Sessions : hist[s].row = 2 /\ delivered[s] # <<>>

\* C6: events published before any stream attached stay queued, and the first drain of
\* a session that was not disposed delivers every event published so far, in order.
C6_LateSubscriberGetsAll ==
  /\ [](\A s \in Sessions : ~hist[s].attached => Queue(s) = published[s])
  /\ [][\A s \in Sessions :
          (~hist[s].drained /\ hist'[s].drained /\ ~hist[s].disposed)
             => Evs(s)' = published[s]]_vars

C6_Witness ==
  \E s \in Sessions :
    /\ hist[s].late
    /\ hist[s].drained
    /\ ~hist[s].disposed
    /\ Len(delivered[s]) >= 2
    /\ Evs(s) = published[s]

\* the session a step operates on
Acted(a) ==
  \/ published'[a] # published[a]
  \/ delivered'[a] # delivered[a]
  \/ hist'[a] # hist[a]
  \/ \E c \in Streams : stream'[c] # stream[c] /\ stream'[c].sessionId = a

\* C10: a publish, a drain or a dispose on one session leaves the queue and the
\* deliveries of every other session unchanged, and what a session delivers or still
\* queues is never more than what was published to it.
C10_SessionsDoNotInterfere ==
  /\ [](\A b \in Sessions :
          /\ Len(delivered[b]) + Len(Queue(b)) <= Len(published[b])
          /\ \A i \in 1..Len(Queue(b)) : Queue(b)[i] = published[b][Queue(b)[i].timestamp])
  /\ [][\A a \in Sessions : Acted(a) =>
          \A b \in Sessions \ {a} :
            /\ Queue(b)' = Queue(b)
            /\ (b \in progressStore.keys)' = (b \in progressStore.keys)
            /\ delivered'[b] = delivered[b]]_vars

C10_Witness ==
  \E a \in Sessions : \E b \in Sessions \ {a} :
    /\ hist[a].disposed
    /\ published[a] # <<>>
    /\ delivered[b] # <<>>
    /\ Queue(b) # <<>>

\* the pipeline stage a published step name belongs to
StageOf(ev) ==
  CASE ev.step \in {"Parsing form data...", "Form data parsed successfully"} -> "validation"
    [] ev.step \in {"Converting file to buffer...", "File converted to buffer",
                    "Converting file to buffer"} -> "buffer"
    [] ev.step \in {"Uploading to storage...", "File uploaded successfully to storage",
                    "Uploading to storage"} -> "upload"
    [] ev.step \in {"Extracting text with Gemini...", "Text extracted successfully",
                    "Extracting text with Gemini"} -> "extraction"
    [] ev.step = "Starting analysis..." -> "analysis start"
    [] ev.step \in {"Running analysis...", "analysis completed", "Running analysis"} -> "mode"
    [] ev.step \in {"Analysis completed, saving to database...",
                    "Upload and analysis completed successfully"} -> "persistence"
    [] OTHER -> "other"

StageKey(ev) == [stage |-> StageOf(ev), mode |-> ev.mode]
OfStage(log, key) == SelectSeq(log, LAMBDA ev : StageKey(ev) = key)
StageKeys(log) == {StageKey(log[i]) : i \in 1..Len(log)}

\* the events of one stage come in pairs: 'active', then 'completed' or 'error'
Paired(evs) ==
  /\ Len(evs) % 2 = 0
  /\ \A k \in 1..Len(evs) :
       IF k % 2 = 1 THEN evs[k].status = "active"
       ELSE evs[k].status \in {"completed", "error"}

\* C7: in every finished run, each stage that was entered has published one 'active'
\* event on entry and then exactly one 'completed' or 'error' event on exit.
C7_EveryStagePublishesEntryAndExit ==
  pc = "done" =>
    \A s \in Sessions : \A key \in StageKeys(published[s]) : Paired(OfStage(published[s], key))

StageRank(ev) ==
  CASE StageOf(ev) = "validation" -> 1
    [] StageOf(ev) = "buffer" -> 2
    [] StageOf(ev) = "upload" -> 3
    [] StageOf(ev) = "extraction" -> 4
    [] StageOf(ev) = "analysis start" -> 5
    [] StageOf(ev) = "mode" -> 6
    [] StageOf(ev) = "persistence" -> 7
    [] OTHER -> 0

Statuses(evs) == [i \in 1..Len(evs) |-> evs[i].status]
ModeEvents(log) ==
  LET evs == SelectSeq(log, LAMBDA ev : StageOf(ev) = "mode")
  IN  [i \in 1..Len(evs) |-> [mode |-> evs[i].mode, status |-> evs[i].status]]

\* the k-th requested mode that is in the registry
KthKnown(k) ==
  analysisModes[CHOOSE p \in KnownPositions :
                  Cardinality({q \in KnownPositions : q < p}) = k - 1]

ExpectedModeEvents ==
  [i \in 1..(2 * Cardinality(KnownPositions)) |->
     [mode |-> KthKnown((i + 1) \div 2),
      status |-> IF i % 2 = 1 THEN "active" ELSE "completed"]]

FullySuccessful ==
  /\ ReturnedOk
  /\ \A i \in 1..Len(calls) : calls[i].result = "ok"

\* C8: the events of a session are ordered by stage (no event of a later stage before
\* one of an earlier stage), and in a fully successful run the validation, upload,
\* extraction and persistence stages each publish 'active' then 'completed' and the
\* mode events are, for each requested registry mode in requested order, its
\* 'active' event followed by its 'completed' event.
C8_EventsOrderedByStage ==
  /\ \A s \in Sessions : \A i \in 1..(Len(published[s]) - 1) :
       StageRank(published[s][i]) <= StageRank(published[s][i + 1])
  /\ FullySuccessful =>
       /\ ModeEvents(published[sessionId]) = ExpectedModeEvents
       /\ \A st \in {"validation", "upload", "extraction", "persistence"} :
            Statuses(OfStage(published[sessionId], [stage |-> st, mode |-> ""]))
              = <<"active", "completed">>

C8_Witness ==
  /\ FullySuccessful
  /\ Cardinality(Requested \cap Registry) = 2
  /\ Len(published[sessionId]) = 15

\* the calls a run makes when no stage fails, in order
FullPlan ==
  <<"arrayBuffer", "upload", "extract">>
    \o [k \in 1..Cardinality(KnownPositions) |-> "analyze"]
    \o <<"insert">>

PlanModes == [k \in 1..Cardinality(KnownPositions) |-> KthKnown(k)]
CalledModes ==
  LET cs == SelectSeq(calls, LAMBDA c : c.kind = "analyze")
  IN  [k \in 1..Len(cs) |-> cs[k].mode]

LastCall == calls[Len(calls)]

\* the slot of mode m as the results of the model calls determine it
ExpectedSlot(m) ==
  LET last == CHOOSE i \in CallsOf("analyze") :
                /\ calls[i].mode = m
                /\ \A j \in CallsOf("analyze") : calls[j].mode = m => j <= i
  IN  IF calls[last].result = "ok" THEN [error |-> FALSE, text |-> m]
      ELSE [error |-> TRUE,
            message |-> IF calls[last].msg = 0 THEN UnknownErrorLen ELSE calls[last].msg,
            timestamp |-> "iso"]

ExpectedAnalysis == [m \in {calls[i].mode : i \in CallsOf("analyze")} |-> ExpectedSlot(m)]

\* the outcome of a finished run as the results of its external calls determine it
ExpectedOutcome ==
  CASE LastCall.kind = "arrayBuffer" ->
         /\ LastCall.result = "error"
         /\ response.status = 400 /\ response.context = "File Buffer Conversion"
         /\ db = <<>> /\ storage = 0
    [] LastCall.kind = "upload" ->
         /\ LastCall.result = "error"
         /\ response.status = 500 /\ response.context = "File Upload to Storage"
         /\ db = <<>> /\ storage = 0
    [] LastCall.kind = "extract" ->
         /\ extractedText.len < MinTextLen
         /\ response.status = 400 /\ response.context = "Text Analysis Prerequisite"
         /\ db = <<>> /\ storage = 1
    [] LastCall.kind = "insert" /\ LastCall.result = "error" ->
         /\ response.status = 500 /\ response.context = "Database Save"
         /\ db = <<>> /\ storage = 1
    [] LastCall.kind = "insert" /\ LastCall.result = "ok" ->
         /\ response.status = 200 /\ response.analysis = ExpectedAnalysis
         /\ Len(db) = 1 /\ db[1].analysis_results = ExpectedAnalysis
         /\ db[1].analysis_modes = analysisModes
         /\ CalledModes = PlanModes
         /\ storage = 1
    [] OTHER -> FALSE

\* C9: a finished run made the calls of the plan, in order, up to its first fatal
\* failure, and its response and stored row are the ones the results of those calls
\* determine, whether or not a stream of the session was aborted on the way.
C9_DisconnectDoesNotCancel ==
  pc = "done" =>
    /\ PendingCalls = {}
    /\ Len(calls) <= Len(FullPlan)
    /\ \A i \in 1..Len(calls) : calls[i].kind = FullPlan[i]
    /\ IF calls = <<>>
       THEN response.context \in {"API Configuration", "User Authentication", "File Validation"}
       ELSE ExpectedOutcome

C9_Witness ==
  /\ ReturnedOk
  /\ hist[sessionId].disposed
  /\ delivered[sessionId] # <<>>
  /\ Queue(sessionId) # <<>>
  /\ Cardinality(FailedModeCalls) = 1

\* the MIME types of PDF, DOCX and legacy DOC
AllowedTypes ==
  {"application/pdf",
   "application/vnd.openxmlformats-officedocument.wordprocessingml.document",
   "application/msword"}

FormParsed == analysisModes # <<>>
Rejected == pc = "done" /\ response.status = 400 /\ response.context = "File Validation"

\* C15: once the form is parsed, the request is rejected by validation if and only if
\* no file is present, or its declared type is not PDF, DOCX or legacy DOC, or its
\* size exceeds 50 MiB; a file that passes proceeds to the buffer and upload stages.
C15_ValidationAcceptsPdfDocxDoc ==
  FormParsed =>
    /\ Rejected <=> (~file.present \/ file.type \notin AllowedTypes \/ file.size > MaxSize)
    /\ ~Rejected => CallsOf("arrayBuffer") # {}

\* C20: the analysis calls of a run are started in requested order and one at a time:
\* every analysis call but the latest has returned or failed, so at most one analysis
\* call is in flight.
C20_ModesRunInSequence ==
  /\ \A i \in CallsOf("analyze") : \A j \in CallsOf("analyze") :
        i < j => calls[i].result # "pending"
  /\ Cardinality(PendingCalls \cap CallsOf("analyze")) <= 1
  /\ Len(CalledModes) <= Len(PlanModes)
  /\ \A k \in 1..Len(CalledModes) : k <= Len(PlanModes) => CalledModes[k] = PlanModes[k]

C20_Witness ==
  /\ pc = "analyze"
  /\ idx = 2
  /\ Cardinality(CallsOf("analyze")) = 2
  /\ calls[Len(calls)].result = "pending"
  /\ \E i \in FailedModeCalls : i < Len(calls)

\* ------------------------------------------------ claims on the extraction
Finished == xpc = "done"
Succeeded == Finished /\ exportResponse.status = 200
Exported == exportResponse.obligations
ParseFailed == "parse-failed" \in taken
IsSentinel(r) == r.category = "Information" /\ r.phase = "GENERAL"

\* the records previously persisted for the document, if it has any
PriorRecords ==
  IF document.analysis_results /\ document.obligations.kind = "array"
  THEN document.obligations.recs ELSE <<>>

\* C11: when the model output cannot be parsed into an array, the extraction still
\* ends with a successful response carrying an array of obligation records.
C11_ExtractionIsTotal ==
  (Finished /\ ParseFailed) => (exportResponse.status = 200 /\ Exported # <<>>)

\* C12: every successful extraction exports at least one record; a parsed or
\* persisted value that is empty or not an array is replaced by the single sentinel
\* record with category Information and phase GENERAL.
C12_ResultIsNeverEmpty ==
  Succeeded =>
    /\ Exported # <<>>
    /\ (obligations.kind # "array" \/ obligations.recs = <<>>) =>
          (Len(Exported) = 1 /\ IsSentinel(Exported[1]))

\* C13: every record of a successful extraction has its enforceability in
\* {Mandatory, Optional, Conditional} and its phase in {GENERAL, DEVELOPMENT,
\* CONSTRUCTION, OPERATIONAL}.
C13_RecordsAreSchemaValid ==
  Succeeded =>
    \A i \in 1..Len(Exported) :
      /\ Exported[i].enforceability \in {"Mandatory", "Optional", "Conditional"}
      /\ Exported[i].phase \in {"GENERAL", "DEVELOPMENT", "CONSTRUCTION", "OPERATIONAL"}

\* C14: after a failed parse (and repair), previously persisted records are the
\* result whenever the document has some, and the sentinel record is in the result
\* only when the document has none.
C14_PriorBeforeSentinel ==
  (Finished /\ ParseFailed) =>
    /\ PriorRecords # <<>> =>
         (exportResponse.status = 200 /\ Exported = PriorRecords /\ "sentinel" \notin taken)
    /\ ("sentinel" \in taken \/ \E i \in 1..Len(Exported) : IsSentinel(Exported[i])) =>
         PriorRecords = <<>>

C14_Witness ==
  /\ Finished
  /\ ParseFailed
  /\ handler = "GET/langchain"
  /\ "prior" \in taken
  /\ PriorRecords # <<>>
  /\ Exported = PriorRecords

\* the model returned an array literal inside a fence, with commentary around it
FencedArray ==
  LET b == modelOutput.body
  IN  /\ handler \in {"GET/json-parse", "POST/csv"}
      /\ modelOutput.open # ""
      /\ Len(b) >= 2 /\ b[1] = "[" /\ b[Len(b)] = "]"
      /\ (Len(b) = 2 \/ Len(b) % 2 = 1)
      /\ \A i \in 2..(Len(b) - 1) : IF i % 2 = 0 THEN b[i] \in ObjectTokens ELSE b[i] = ","
      /\ (modelOutput.pre # <<>> \/ modelOutput.post # <<>>)

BodyRecords ==
  [k \in 1..((Len(modelOutput.body) - 1) \div 2) |->
     IF modelOutput.body[2 * k] = "{pay}" THEN PayRecord ELSE AccessRecord]

Contains(s, tok) == \E i \in 1..Len(s) : s[i] = tok

ParsedAsReturned ==
  /\ exportResponse.status = 200
  /\ Exported = BodyRecords
  /\ taken = {"parsed"}

PromptBuilt == fullPrompt.systemPrompt \in {"summarization", "comparative"}
Range(f) == {f[i] : i \in 1..Len(f)}
NoDuplicates(f) == \A i \in 1..Len(f) : \A j \in 1..Len(f) : f[i] = f[j] => i = j

\* one element per clause of a clause array of standard, per risk of a risk list
ClauseSet ==
  UNION {UNION {{<<d, p, k>> : k \in 1..documentsData[d].standard.values[p].length} :
                  p \in {q \in 1..Len(documentsData[d].standard.values) :
                           documentsData[d].standard.values[q].isArray}} :
           d \in {e \in 1..Len(documentsData) :
                    documentsData[e].analysis_results /\ documentsData[e].standard.present}}
RiskSet ==
  UNION {{<<d, k>> : k \in 1..documentsData[d].risks.length} :
           d \in {e \in 1..Len(documentsData) :
                    documentsData[e].analysis_results /\ documentsData[e].risks.present}}

\* C16: a chat turn whose model call failed does not end as a successful response
\* and stores no assistant message.
C16_ModelFailureIsSurfaced ==
  generated = "error" =>
    /\ cpc = "done" => chatResponse.status # 200
    /\ \A i \in 1..Len(chat_messages) : chat_messages[i].role # "assistant"

\* C17: for a non-empty list of documents the portfolio context holds the number of
\* documents, the sum of the lengths of the clause arrays of standard, the sum of the
\* lengths of the risk lists, and each lease type and each analysis-mode name of some
\* document exactly once.
C17_PortfolioTotals ==
  (PromptBuilt /\ documentsData # <<>>) =>
    LET ctx == fullPrompt.context
    IN  /\ ctx.totalDocs = Len(documentsData)
        /\ ctx.totalClauses = Cardinality(ClauseSet)
        /\ ctx.totalRisks = Cardinality(RiskSet)
        /\ NoDuplicates(ctx.leaseTypes)
        /\ Range(ctx.leaseTypes) = {documentsData[d].lease_type : d \in 1..Len(documentsData)} \ {""}
        /\ NoDuplicates(ctx.analysisModes)
        /\ Range(ctx.analysisModes) =
             UNION {Range(documentsData[d].analysis_modes) : d \in 1..Len(documentsData)}

C17_Witness ==
  /\ PromptBuilt
  /\ Len(documentsData) = 2
  /\ documentsData[1].lease_type = "solar" /\ documentsData[2].lease_type = "wind"
  /\ fullPrompt.context.totalClauses = 4
  /\ fullPrompt.context.totalRisks = 2
  /\ fullPrompt.context.analysisModes = <<"standard", "legal">>
  /\ fullPrompt.context.leaseTypes = <<"solar", "wind">>

\* the message holds a keyword of the vocabulary, compared without regard to case
Occurs(keyword, text) ==
  \E i \in 0..(Len(text) - Len(keyword)) : \A j \in 1..Len(keyword) : text[i + j] = keyword[j]
HasKeyword == \E keyword \in summarizationKeywords : Occurs(keyword, toLowerCase(message))

\* C18: the summarization prompt is selected exactly when the lower-cased message
\* holds a keyword of the vocabulary as a substring, whatever the documents and the
\* session are; a message with no keyword selects the comparative prompt.
C18_IntentIsKeywordMembership ==
  PromptBuilt =>
    /\ fullPrompt.systemPrompt = "summarization" <=> HasKeyword
    /\ ~HasKeyword => fullPrompt.systemPrompt = "comparative"

C18_Witness ==
  /\ PromptBuilt
  /\ message = <<"S", "u", "m", "m", "a", "r", "i", "z", "e", " ", "m", "y", " ", "d", "o", "c", "u", "m", "e", "n", "t", "s">>
  /\ fullPrompt.systemPrompt = "summarization"
  /\ documentsData # <<>>

\* -------------------------------------------- claims on the upload pipeline
ReturnedModeCalls(m) ==
  {i \in CallsOf("analyze") : calls[i].mode = m /\ calls[i].result # "pending"}
LastReturned(m) == CHOOSE i \in ReturnedModeCalls(m) : \A j \in ReturnedModeCalls(m) : j <= i
ProcessedModes == {m \in Registry : ReturnedModeCalls(m) # {}}
ResultText(m) == [error |-> FALSE, text |-> m]
Envelope(msgLen) ==
  [error |-> TRUE, message |-> IF msgLen = 0 THEN UnknownErrorLen ELSE msgLen,
   timestamp |-> "iso"]

\* C21: the slots are exactly those of the modes whose model call has returned, each
\* slot is the whole result text of its mode if the latest call of the mode succeeded
\* and the error envelope of that call if it threw, and a step of the handler changes
\* no slot other than the one of the mode whose call it handles.
C21_SlotIsResultOrEnvelope ==
  /\ [](/\ DOMAIN analysisResults = ProcessedModes
        /\ \A m \in ProcessedModes :
             analysisResults[m] = IF calls[LastReturned(m)].result = "ok" THEN ResultText(m)
                                  ELSE Envelope(calls[LastReturned(m)].msg))
  /\ [][\A m \in DOMAIN analysisResults :
          (pc # "analyze" \/ m # analysisModes[idx]) =>
             /\ m \in DOMAIN analysisResults'
             /\ analysisResults'[m] = analysisResults[m]]_vars

C21_Witness ==
  /\ pc = "done"
  /\ \E i \in FailedModeCalls : \E j \in CallsOf("analyze") :
       /\ j < i
       /\ calls[j].result = "ok"
       /\ calls[j].mode # calls[i].mode
       /\ analysisResults[calls[j].mode] = ResultText(calls[j].mode)
       /\ analysisResults[calls[i].mode].error

UploadFailed == \E i \in CallsOf("upload") : calls[i].result = "error"
LastPublished(s) == published[s][Len(published[s])]

\* C22: once the storage upload has failed, the latest event of the session is the
\* 'error' event of the upload step, the run has ended with the 500 response of the
\* upload stage, and it has made no text-extraction call, no analysis call and no
\* insert, and stored nothing.
C22_UploadFailureIsFatal ==
  UploadFailed =>
    /\ pc = "done"
    /\ response.status = 500
    /\ response.context = "File Upload to Storage"
    /\ published[sessionId] # <<>>
    /\ LastPublished(sessionId).step = "Uploading to storage"
    /\ LastPublished(sessionId).status = "error"
    /\ CallsOf("extract") = {}
    /\ CallsOf("analyze") = {}
    /\ CallsOf("insert") = {}
    /\ storage = 0
    /\ db = <<>>

C22_Witness ==
  /\ UploadFailed
  /\ pc = "done"
  /\ \E n \in 1..Len(published[sessionId]) :
       /\ published[sessionId][n].step = "Uploading to storage..."
       /\ published[sessionId][n].status = "active"
       /\ n + 1 = Len(published[sessionId])

Unacceptable == ~file.present \/ file.type # "application/pdf" \/ file.size > MaxSize

\* C25: a request whose file is missing, of a type other than PDF or larger than
\* 50 MiB is rejected with the 400 response of the validation stage; the run has then
\* made no external call (no buffer read, storage upload, model call or insert) and
\* stored nothing, the latest event of the session is the 'completed' event of the form
\* parsing, and no step after the rejection publishes to the session or makes a call.
C25_ValidationFailsFast ==
  /\ []((FormParsed /\ Unacceptable) =>
          /\ Rejected
          /\ calls = <<>>
          /\ storage = 0
          /\ db = <<>>
          /\ LastPublished(sessionId).step = "Form data parsed successfully")
  /\ [][Rejected => (published' = published /\ calls' = calls /\ storage' = storage
                     /\ db' = db)]_vars

C25_Witness ==
  /\ Rejected
  /\ file.present
  /\ file.type = "application/pdf"
  /\ file.size > MaxSize
  /\ \E c \in UploadStreams : stream[c].state = "open" /\ delivered[sessionId] # <<>>

ExtractFailed == \E i \in CallsOf("extract") : calls[i].result = "error"

\* C26: once the text-extraction call has thrown, whatever its error message, the run
\* ends at the content gate with the 400 response and makes no analysis call and no
\* insert.
C26_FailedExtractionStopsAtGate ==
  ExtractFailed =>
    /\ pc = "done"
    /\ response.status = 400
    /\ response.context = "Text Analysis Prerequisite"
    /\ CallsOf("analyze") = {}
    /\ CallsOf("insert") = {}
    /\ db = <<>>

\* C27: in every stored row the set of names in analysis_modes is the key set of
\* analysis_results.
C27_ModesMatchResultKeys ==
  \A r \in 1..Len(db) :
    {db[r].analysis_modes[i] : i \in 1..Len(db[r].analysis_modes)} = DOMAIN db[r].analysis_results

\* C29: when a run has ended, every object it wrote to the bucket has its row in
\* user_files.
C29_StoredFilesHaveRecords ==
  pc = "done" => storage = Len(db)

\* ------------------------------------------- claims on the progress channel
Disconnected(s) ==
  /\ hist[s].disposed
  /\ \A c \in Streams : stream[c].sessionId = s => stream[c].state \in {"closed", "stopped"}

\* C23: whenever the run of a session has finished and the consumer of the session
\* has disconnected, the progress store eventually holds no entry for the session.
C23_StoreEntryIsCollected ==
  \A s \in Sessions :
    (pc = "done" /\ sessionId = s /\ Disconnected(s)) ~> (s \notin progressStore.keys)

ConsumersOf(s) == {c \in Streams : stream[c].sessionId = s}

\* C24: no event of a session is delivered twice, neither by one stream nor by two
\* streams of the session; and while a session has had one consumer only, still
\* connected, the events that stream has sent followed by the queued ones are exactly
\* the published ones, all of them sent once the stream has polled since the last
\* publish.
C24_DeliveredAtMostOnce ==
  \A s \in Sessions :
    /\ \A i \in 1..Len(delivered[s]) : \A j \in 1..Len(delivered[s]) :
         delivered[s][i].ev = delivered[s][j].ev => i = j
    /\ \A c \in ConsumersOf(s) : \A d \in ConsumersOf(s) :
         \A i \in 1..Len(Sent(c)) : \A j \in 1..Len(Sent(d)) :
           Sent(c)[i] = Sent(d)[j] => (c = d /\ i = j)
    /\ \A c \in Streams :
         (ConsumersOf(s) = {c} /\ stream[c].state = "open") =>
            /\ Sent(c) \o Queue(s) = published[s]
            /\ hist[s].row >= 1 => Sent(c) = published[s]

C24_Witness ==
  \E s \in Sessions : \E c \in Streams :
    /\ ConsumersOf(s) = {c}
    /\ stream[c].state = "open"
    /\ Len(published[s]) = MaxEvents
    /\ Sent(c) = published[s]
    /\ ~hist[s].coalesced
    /\ \E t \in Sessions \ {s} : Cardinality(ConsumersOf(t)) = 1 /\ delivered[t] # <<>>

\* ------------------------------------------------ claims on the chat context
IsEnvelope(slot) == IsTruthy(Prop(slot, "error"))
ContextBuilt == fullPrompt.systemPrompt # ""
ContextModes == {"standard", "legal", "obligations", "renewal", "redlining"}

\* the lines of the two context texts that print something taken from the slot of a mode
LabelsOf(mode) ==
  CASE mode = "standard" -> {"Analysis covers phases", "clauses identified", "Analysis Phases"}
    [] mode = "legal" -> {"High/Critical Risks", "Medium Risks", "Key Risks"}
    [] mode = "renewal" -> {"Timeline Events", "Renewal Timeline"}
    [] mode = "obligations" -> {"Obligations", "Key Obligations"}
    [] mode = "redlining" -> {"Redlining Changes"}

\* the lines of the detailed content that belong to the d-th document
Section(d) ==
  LET lines == fullPrompt.details
      header(k) == lines[k].label = "Document"
  IN  {k \in 1..Len(lines) :
         /\ ~header(k)
         /\ \E h \in 1..k : /\ header(h)
                            /\ lines[h].counts = <<d>>
                            /\ \A j \in (h + 1)..k : ~header(j)}

\* C28: once the prompt of a chat turn is built, no line of the document context or of
\* the detailed content of a document prints a phase, a name or a count taken from a
\* slot of that document that holds an error envelope, and the totals of the portfolio
\* context count no clause and no risk of such a slot.
C28_EnvelopeAddsNoStatistic ==
  ContextBuilt =>
    /\ \A d \in 1..Len(documentsData) : \A mode \in ContextModes :
         IsEnvelope(Prop(documentsData[d].results, mode)) =>
            /\ \A k \in 1..Len(fullPrompt.analysisContext) :
                 fullPrompt.analysisContext[k].label \notin LabelsOf(mode)
            /\ \A k \in Section(d) : fullPrompt.details[k].label \notin LabelsOf(mode)
    /\ fullPrompt.context.totalClauses =
         Cardinality({t \in ClauseSet :
                        ~IsEnvelope(Prop(documentsData[t[1]].results, "standard"))})
    /\ fullPrompt.context.totalRisks =
         Cardinality({t \in RiskSet : ~IsEnvelope(Prop(documentsData[t[1]].results, "legal"))})

\* the session a stored message is attached to belongs to the caller: it is a stored
\* session of the caller or the one this request created
OwnedByCaller(sid) ==
  \/ sid = "newSession.id"
  \/ \E s \in StoredSessions : s.id = sid /\ s.user_id = Caller

\* C30: every message a chat turn stores is attached to a session that belongs to the
\* caller.
C30_MessagesGoToOwnSession ==
  \A i \in 1..Len(chat_messages) : OwnedByCaller(chat_messages[i].session_id)

====
